---- MODULE Spec2Model ----
(***************************************************************************)
(* Model of lib/protoparser/native/streamparser.go: ParseStream, its       *)
(* decode workers, the unmarshalWork pool and the six counters.            *)
(*                                                                         *)
(* The request body is revealed read by read: every io.ReadFull draws what *)
(* the connection delivers next (all the bytes asked for, a clean end of   *)
(* stream, a truncated read, or an I/O failure).  What has been delivered  *)
(* is kept in the history variable `stream`.                               *)
(***************************************************************************)
EXTENDS Integers, Sequences, FiniteSets, TLC

(* ------------------------------ bounds --------------------------------- *)
\* GOMAXPROCS of a mixed-content run.
MaxProcs == 2
\* Most complete records the client sends in a mixed-content run.
MaxRecs == 2
\* Most complete records the client sends in a bulk run: one processor,
\* uniform well-formed records, a sink that accepts every block.
BulkRecs == 9

(* ------------------------- program constants --------------------------- *)
\* len(trBuf), streamparser.go:40
HeaderSize == 16
\* len(sizeBuf), streamparser.go:81
SizeBufLen == 4
\* the frame ceiling 1024*1024, streamparser.go:96 and :114
MaxFrameSize == 1048576
\* workCh capacity factor, streamparser.go:51
QueueFactor == 8

(* --------------------------- byte decoding ----------------------------- *)
\* Big-endian value of a byte sequence (Horner), most significant byte first.
RECURSIVE BigEndian(_)
BigEndian(b) ==
    IF b = <<>> THEN 0
    ELSE BigEndian(SubSeq(b, 1, Len(b) - 1)) * 256 + b[Len(b)]

\* encoding.UnmarshalUint32: 4 bytes, big-endian, unsigned.
UnmarshalUint32(b) == BigEndian(SubSeq(b, 1, 4))

\* encoding.UnmarshalInt64: 8 bytes, big-endian, two's complement.
UnmarshalInt64(b) ==
    LET b8 == SubSeq(b, 1, 8) IN
    IF b8[1] < 128 THEN BigEndian(b8)
    ELSE -(BigEndian([i \in 1..8 |-> 255 - b8[i]]) + 1)

\* The 8 bytes of a small non-negative int64 (test data for the header).
Int64Bytes(n) ==
    <<0, 0, 0, 0, 0, 0, (n \div 256) % 256, n % 256>>
\* The 8 bytes of -1 - n for a small non-negative n.
NegInt64Bytes(n) ==
    <<255, 255, 255, 255, 255, 255, 255 - ((n \div 256) % 256), 255 - (n % 256)>>

(* ------------------------------ payloads ------------------------------- *)
\* A frame payload is kept as what the storage decoders make of it, not as
\* its (up to 1 MiB of) bytes.
NoData == [kind |-> "none", mn |-> "", rows |-> <<>>, tail |-> 0]
Garbage == [kind |-> "garbage", mn |-> "", rows |-> <<>>, tail |-> 0]
NamePayload(s) == [kind |-> "name", mn |-> s, rows |-> <<>>, tail |-> 0]
BlockPayload(rows, tail) == [kind |-> "block", mn |-> "", rows |-> rows, tail |-> tail]

\* A byte buffer: its length and what its bytes hold.
EmptyBuf == [len |-> 0, data |-> NoData]

\* bytesutil.Resize(b, n): a buffer of n bytes whose content is yet to be read.
Resize(buf, n) == [len |-> n, data |-> NoData]

\* Rows are <<timestamp, value>> pairs.
RowsA == << <<900, 1>>, <<1500, 2>>, <<2500, 3>> >>
RowsB == << <<1000, 4>>, <<2000, 5>> >>


(* ------------------------- storage decoders ---------------------------- *)
\* storage.MetricName.UnmarshalNoAccountIDProjectID: the metric identity in
\* the buffer, or an error for bytes that are no marshaled metric name.
UnmarshalNoAccountIDProjectID(buf) ==
    [err |-> ~(buf.len > 0 /\ buf.data.kind = "name"), mn |-> buf.data.mn]

\* storage.Block.UnmarshalPortable: the decoded rows and the number of bytes
\* left over, or an error for bytes that are no marshaled block.
UnmarshalPortable(buf) ==
    [err |-> ~(buf.len > 0 /\ buf.data.kind = "block"),
     rows |-> buf.data.rows, tail |-> buf.data.tail]

\* storage.Block.AppendRowsWithTimeRangeFilter: appends to (dstTs, dstVals)
\* the rows of the decoded block with MinTimestamp <= ts <= MaxTimestamp.
RECURSIVE AppendRowsWithTimeRangeFilter(_, _, _, _)
AppendRowsWithTimeRangeFilter(rows, dstTs, dstVals, r) ==
    IF rows = <<>> THEN [Timestamps |-> dstTs, Values |-> dstVals]
    ELSE LET row == Head(rows) IN
         IF row[1] >= r.MinTimestamp /\ row[1] <= r.MaxTimestamp
         THEN AppendRowsWithTimeRangeFilter(Tail(rows), Append(dstTs, row[1]),
                                            Append(dstVals, row[2]), r)
         ELSE AppendRowsWithTimeRangeFilter(Tail(rows), dstTs, dstVals, r)

(* ------------------------------ the wire ------------------------------- *)
\* What the connection yields to one io.ReadFull: all the bytes asked for
\* ("full"), no byte and a clean end of stream ("eof"), some of the bytes
\* and then the end of stream ("short"), or an I/O failure ("err").
Delivery(res, bytes, data) == [res |-> res, bytes |-> bytes, data |-> data]
Failures == {Delivery(r, <<>>, NoData) : r \in {"eof", "short", "err"}}
NoDelivery == Delivery("full", <<>>, NoData)

\* The 4 bytes of a frame length below 2^24.
SizeWord(n) == <<0, (n \div 65536) % 256, (n \div 256) % 256, n % 256>>

\* Lengths of the small payloads: the bytes of "cpu", and two bytes a row.
NameLen == Len(<<99, 112, 117>>)
BlockLen == 2 * Len(RowsA) - 1
\* The largest length word the model sends: 0x7fffffff.
HugeWord == <<127, 255, 255, 255>>

\* The 16-byte headers a client sends: [1000, 2000] and [-1, -1001].
Headers(mode) ==
    IF mode = "bulk" THEN {Int64Bytes(1000) \o Int64Bytes(2000)}
    ELSE {Int64Bytes(1000) \o Int64Bytes(2000),
          NegInt64Bytes(0) \o NegInt64Bytes(1000)}

\* The length words a client sends for a metric-name frame and a block frame.
NameSizeWords(mode) ==
    IF mode = "bulk" THEN {SizeWord(NameLen)}
    ELSE {SizeWord(0), SizeWord(NameLen), SizeWord(MaxFrameSize),
          SizeWord(MaxFrameSize + 1), HugeWord}
BlockSizeWords(mode, nameBuf) ==
    IF mode = "bulk" THEN {SizeWord(BlockLen)}
    ELSE IF nameBuf.len = MaxFrameSize
    THEN {SizeWord(MaxFrameSize), SizeWord(MaxFrameSize + 1), HugeWord}
    ELSE {SizeWord(BlockLen), SizeWord(MaxFrameSize + 1), HugeWord}

\* The payloads of n > 0 bytes a client sends.  In a mixed run a record is
\* one of: ("cpu", RowsA), ("cpu", RowsA and a trailing byte), ("cpu",
\* garbage), (garbage, RowsA), (empty name, RowsA), and, both frames of
\* MaxFrameSize bytes, ("long", RowsB).
NamePayloads(mode, n) ==
    IF mode = "bulk" THEN {NamePayload("cpu")}
    ELSE IF n = NameLen THEN {NamePayload("cpu"), Garbage}
    ELSE {NamePayload("long")}
BlockPayloads(mode, n, nameBuf) ==
    IF mode = "bulk" THEN {BlockPayload(RowsA, 0)}
    ELSE IF n # BlockLen THEN {BlockPayload(RowsB, 0)}
    ELSE IF nameBuf.data.kind = "name"
    THEN {BlockPayload(RowsA, 0), BlockPayload(RowsA, 1), Garbage}
    ELSE {BlockPayload(RowsA, 0)}

\* io.ReadFull(br, buf) with len(buf) = n, given what the wire delivers:
\* nil when buf was filled (always, for an empty buf), io.EOF when no byte
\* was read, io.ErrUnexpectedEOF after a partial read, else the I/O error.
ReadFull(n, d) ==
    IF n = 0 THEN "nil"
    ELSE CASE d.res = "full" -> "nil"
           [] d.res = "eof" -> "EOF"
           [] d.res = "short" -> "ErrUnexpectedEOF"
           [] OTHER -> "ioerr"

(* ------------------------------- state --------------------------------- *)
VARIABLES
    env,         \* the run's surroundings: the client's repertoire (mode), the most
                 \* complete records it sends (recs), whether the sink may fail
    gomaxprocs,  \* runtime.GOMAXPROCS(-1)
    rpc,         \* where ParseStream (the reader) is
    ret,         \* ParseStream's return value: "none" until set, "nil", "error"
    tr,          \* the TimeRange read from the header
    uw,          \* the reader's uw: a WorkItem id, 0 when it holds none
    workCh,      \* the buffered channel: WorkItem ids, oldest first
    closed,      \* whether workCh is closed
    wpc,         \* worker -> where it is
    wuw,         \* worker -> the WorkItem id it holds, 0 for none
    items,       \* WorkItem id -> unmarshalWork (every item ever allocated)
    pool,        \* unmarshalWorkPool: the ids in the pool
    others,      \* the ids held by other ParseStream calls of the process
    ctr,         \* the six counters
    stream,      \* history: what the wire has delivered so far (the header bytes,
                 \* per complete record whether it is well-formed, the last
                 \* length word, where and how the stream ended)
    stat         \* history: per complete record, what happened to it

vars == <<env, gomaxprocs, rpc, ret, tr, uw, workCh, closed,
          wpc, wuw, items, pool, others, ctr, stream, stat>>

ZeroTimeRange == [MinTimestamp |-> 0, MaxTimestamp |-> 0]
EmptyBlock == [MetricName |-> "", Values |-> <<>>, Timestamps |-> <<>>]

\* &unmarshalWork{}: the zero value.  rec is history: the 1-based position
\* in the stream of the record the item carries, 0 for none.
NewWork == [tr |-> ZeroTimeRange, metricNameBuf |-> EmptyBuf,
            blockBuf |-> EmptyBuf, block |-> EmptyBlock, rec |-> 0]

Workers == 1..gomaxprocs


Inc(c, name) == [c EXCEPT ![name] = @ + 1]

(* ------------------------------ the pool ------------------------------- *)
\* Block.reset (lines 138-142)
BlockReset(b) == [b EXCEPT !.MetricName = "", !.Values = <<>>, !.Timestamps = <<>>]

\* unmarshalWork.reset (lines 161-165); the history field is cleared with it.
WorkReset(w) ==
    [w EXCEPT !.metricNameBuf = EmptyBuf, !.blockBuf = EmptyBuf,
              !.block = BlockReset(@), !.rec = 0]

\* getUnmarshalWork (lines 184-190): id is the item returned.  sync.Pool.Get
\* hands out any pooled item, or nil (also with items in the pool), and then
\* a new item is allocated.
getUnmarshalWork(id) ==
    \/ /\ id \in pool
       /\ pool' = pool \ {id}
       /\ items' = items
    \/ /\ id = Len(items) + 1
       /\ items' = Append(items, NewWork)
       /\ pool' = pool

\* Mutant of putUnmarshalWork: the item is put without uw.reset().
putUnmarshalWorkNoReset(id) ==
    /\ items' = items
    /\ pool' = pool \cup {id}

\* putUnmarshalWork (lines 192-195)
putUnmarshalWork(id) ==
    /\ items' = [items EXCEPT ![id] = WorkReset(@)]
    /\ pool' = pool \cup {id}

(* ------------------------------- decode -------------------------------- *)
\* Mutant of unmarshal: the rows are filtered by the item's own tr field,
\* which nothing sets, in place of the argument.
unmarshalOwnRange(w, r) ==
    LET mn == UnmarshalNoAccountIDProjectID(w.metricNameBuf)
        w1 == [w EXCEPT !.block.MetricName = mn.mn]
        tmpBlock == UnmarshalPortable(w.blockBuf)
        out == AppendRowsWithTimeRangeFilter(tmpBlock.rows, <<>>, <<>>, w.tr)
    IN  IF mn.err THEN [err |-> TRUE, uw |-> w, rows |-> 0]
        ELSE IF tmpBlock.err THEN [err |-> TRUE, uw |-> w1, rows |-> 0]
        ELSE IF tmpBlock.tail > 0 THEN [err |-> TRUE, uw |-> w1, rows |-> 0]
        ELSE [err |-> FALSE,
              uw |-> [w1 EXCEPT !.block.Timestamps = out.Timestamps,
                                !.block.Values = out.Values],
              rows |-> Len(out.Timestamps)]

\* Mutant of unmarshal: rowsRead is advanced by the rows decoded, before
\* the time-range filter.
unmarshalCountsDecoded(w, r) ==
    LET mn == UnmarshalNoAccountIDProjectID(w.metricNameBuf)
        w1 == [w EXCEPT !.block.MetricName = mn.mn]
        tmpBlock == UnmarshalPortable(w.blockBuf)
        out == AppendRowsWithTimeRangeFilter(tmpBlock.rows, <<>>, <<>>, r)
    IN  IF mn.err THEN [err |-> TRUE, uw |-> w, rows |-> 0]
        ELSE IF tmpBlock.err THEN [err |-> TRUE, uw |-> w1, rows |-> 0]
        ELSE IF tmpBlock.tail > 0 THEN [err |-> TRUE, uw |-> w1, rows |-> 0]
        ELSE [err |-> FALSE,
              uw |-> [w1 EXCEPT !.block.Timestamps = out.Timestamps,
                                !.block.Values = out.Values],
              rows |-> Len(tmpBlock.rows)]

\* unmarshalWork.unmarshal (lines 167-182) on item w with time range r:
\* whether it failed, the item afterwards, and what it adds to rowsRead.
\* tmpBlock is overwritten by UnmarshalPortable before it is read.
unmarshal(w, r) ==
    LET mn == UnmarshalNoAccountIDProjectID(w.metricNameBuf)
        w1 == [w EXCEPT !.block.MetricName = mn.mn]
        tmpBlock == UnmarshalPortable(w.blockBuf)
        out == AppendRowsWithTimeRangeFilter(tmpBlock.rows, <<>>, <<>>, r)
    IN  IF mn.err THEN [err |-> TRUE, uw |-> w, rows |-> 0]
        ELSE IF tmpBlock.err THEN [err |-> TRUE, uw |-> w1, rows |-> 0]
        ELSE IF tmpBlock.tail > 0 THEN [err |-> TRUE, uw |-> w1, rows |-> 0]
        ELSE [err |-> FALSE,
              uw |-> [w1 EXCEPT !.block.Timestamps = out.Timestamps,
                                !.block.Values = out.Values],
              rows |-> Len(out.Timestamps)]

(* -------------------------------- Init --------------------------------- *)
ZeroCounters == [readCalls |-> 0, readErrors |-> 0, rowsRead |-> 0,
                 blocksRead |-> 0, parseErrors |-> 0, processErrors |-> 0]

NoEnd == [at |-> "", how |-> "open"]

\* The state at the call of ParseStream in a fresh process: the zero
\* sync.Pool (line 197) and the counters at zero.
InitWith(c, procs) ==
    /\ env = c
    /\ gomaxprocs \in procs
    /\ rpc = "header"
    /\ ret = "none"
    /\ tr = ZeroTimeRange
    /\ uw = 0
    /\ workCh = <<>>
    /\ closed = FALSE
    /\ wpc = <<>>
    /\ wuw = <<>>
    /\ items = <<>>
    /\ pool = {}
    /\ others = {}
    /\ ctr = ZeroCounters
    /\ stream = [hdr |-> <<>>, recs |-> <<>>, last |-> <<>>, end |-> NoEnd]
    /\ stat = <<>>

Init ==
    \/ InitWith([mode |-> "mixed", recs |-> MaxRecs, sinkFails |-> TRUE], {MaxProcs})
    \/ InitWith([mode |-> "bulk", recs |-> BulkRecs, sinkFails |-> FALSE], {1})


(* ------------------------------ the reader ----------------------------- *)
\* Mutant of TooBig: the ceiling itself is rejected.
TooBigOffByOne(n) == n >= MaxFrameSize

\* Lines 96 and 114: bufSize > 1024*1024
TooBig(n) == n > MaxFrameSize

Full(S) == {Delivery("full", b, NoData) : b \in S}
FullData(S) == {Delivery("full", <<>>, x) : x \in S}

\* The client starts a further record only below its record limit; a length
\* word above the ceiling ends the call and is always possible.
SizeOffers(words) ==
    Full({x \in words : \/ Len(stream.recs) < env.recs
                        \/ UnmarshalUint32(x) > MaxFrameSize}) \cup Failures

\* What the wire delivers for a payload read of n bytes.
PayloadOffers(n, payloads) ==
    IF n = 0 THEN {NoDelivery} ELSE FullData(payloads) \cup Failures

EndAt(at, how) == [stream EXCEPT !.end = [at |-> at, how |-> how]]
EndTooBig(at, word) ==
    [stream EXCEPT !.end = [at |-> at, how |-> "toobig"], !.last = word]

\* return err from the record loop: the deferred function runs next.
Return(r) == rpc' = "close" /\ ret' = r

\* Mutant of ReadTimeRange: an empty body is taken for "no data" and
\* reported as success.
ReadTimeRangeEmptyOk ==
    /\ rpc = "header"
    /\ \E d \in Full(Headers(env.mode)) \cup Failures :
        LET err == ReadFull(HeaderSize, d) IN
        IF err = "EOF"
        THEN /\ ret' = "nil"
             /\ rpc' = "returned"
             /\ stream' = EndAt("header", d.res)
             /\ UNCHANGED <<ctr, tr>>
        ELSE IF err # "nil"
        THEN /\ ctr' = Inc(ctr, "readErrors")
             /\ ret' = "error"
             /\ rpc' = "returned"
             /\ stream' = EndAt("header", d.res)
             /\ tr' = tr
        ELSE /\ tr' = [MinTimestamp |-> UnmarshalInt64(d.bytes),
                       MaxTimestamp |-> UnmarshalInt64(SubSeq(d.bytes, 9, 16))]
             /\ rpc' = "start"
             /\ stream' = [stream EXCEPT !.hdr = d.bytes]
             /\ UNCHANGED <<ctr, ret>>
    /\ UNCHANGED <<env, others, gomaxprocs, uw, workCh, closed, wpc, wuw,
                   items, pool, stat>>

\* Lines 39-47: read the time range.  A failure returns before the defer
\* statement, with no worker started.
ReadTimeRange ==
    /\ rpc = "header"
    /\ \E d \in Full(Headers(env.mode)) \cup Failures :
        LET err == ReadFull(HeaderSize, d) IN
        IF err # "nil"
        THEN /\ ctr' = Inc(ctr, "readErrors")
             /\ ret' = "error"
             /\ rpc' = "returned"
             /\ stream' = EndAt("header", d.res)
             /\ tr' = tr
        ELSE /\ tr' = [MinTimestamp |-> UnmarshalInt64(d.bytes),
                       MaxTimestamp |-> UnmarshalInt64(SubSeq(d.bytes, 9, 16))]
             /\ rpc' = "start"
             /\ stream' = [stream EXCEPT !.hdr = d.bytes]
             /\ UNCHANGED <<ctr, ret>>
    /\ UNCHANGED <<env, others, gomaxprocs, uw, workCh, closed, wpc, wuw,
                   items, pool, stat>>

\* Mutant of StartWorkers: close(workCh) is called where the defer
\* statement stands, not deferred.
StartWorkersCloseAtOnce ==
    /\ rpc = "start"
    /\ workCh' = <<>>
    /\ closed' = TRUE
    /\ wpc' = [w \in Workers |-> "range"]
    /\ wuw' = [w \in Workers |-> 0]
    /\ rpc' = "get"
    /\ UNCHANGED <<env, others, gomaxprocs, ret, tr, uw, items, pool, ctr,
                   stream, stat>>

\* Mutant of StartWorkers: the loop at line 58 runs once more
\* (i <= gomaxprocs).
StartWorkersOneMore ==
    /\ rpc = "start"
    /\ workCh' = <<>>
    /\ closed' = FALSE
    /\ wpc' = [w \in 1..(gomaxprocs + 1) |-> "range"]
    /\ wuw' = [w \in 1..(gomaxprocs + 1) |-> 0]
    /\ rpc' = "get"
    /\ UNCHANGED <<env, others, gomaxprocs, ret, tr, uw, items, pool, ctr,
                   stream, stat>>

\* Lines 49-78: make workCh, register the deferred close-and-wait, start
\* gomaxprocs workers.
StartWorkers ==
    /\ rpc = "start"
    /\ workCh' = <<>>
    /\ closed' = FALSE
    /\ wpc' = [w \in Workers |-> "range"]
    /\ wuw' = [w \in Workers |-> 0]
    /\ rpc' = "get"
    /\ UNCHANGED <<env, others, gomaxprocs, ret, tr, uw, items, pool, ctr,
                   stream, stat>>

\* Line 83: uw := getUnmarshalWork()
GetWork ==
    /\ rpc = "get"
    /\ \E id \in pool \cup {Len(items) + 1} :
          /\ getUnmarshalWork(id)
          /\ uw' = id
    /\ rpc' = "nameSize"
    /\ UNCHANGED <<env, others, gomaxprocs, ret, tr, workCh, closed, wpc,
                   wuw, ctr, stream, stat>>

\* Lines 85-100: read the metric-name length, check it, size the buffer.
ReadNameSize ==
    /\ rpc = "nameSize"
    /\ \E d \in SizeOffers(NameSizeWords(env.mode)) :
        LET err == ReadFull(SizeBufLen, d)
            bufSize == UnmarshalUint32(d.bytes)
        IN  IF err = "EOF"
            THEN /\ Return("nil")
                 /\ stream' = EndAt("nameSize", d.res)
                 /\ UNCHANGED <<ctr, items>>
            ELSE IF err # "nil"
            THEN /\ ctr' = Inc(ctr, "readErrors")
                 /\ Return("error")
                 /\ stream' = EndAt("nameSize", d.res)
                 /\ items' = items
            ELSE IF TooBig(bufSize)
            THEN /\ ctr' = Inc(Inc(ctr, "readCalls"), "parseErrors")
                 /\ Return("error")
                 /\ stream' = EndTooBig("nameSize", d.bytes)
                 /\ items' = items
            ELSE /\ ctr' = Inc(ctr, "readCalls")
                 /\ items' = [items EXCEPT ![uw].metricNameBuf = Resize(@, bufSize)]
                 /\ rpc' = "name"
                 /\ stream' = [stream EXCEPT !.last = d.bytes]
                 /\ ret' = ret
    /\ UNCHANGED <<env, others, gomaxprocs, tr, uw, workCh, closed, wpc, wuw, pool,
                   stat>>

\* Mutant of ReadName: line 102's readErrors.Inc() is missing.
ReadNameUncounted ==
    /\ rpc = "name"
    /\ \E d \in PayloadOffers(items[uw].metricNameBuf.len,
                              NamePayloads(env.mode, items[uw].metricNameBuf.len)) :
        LET err == ReadFull(items[uw].metricNameBuf.len, d) IN
        IF err # "nil"
        THEN /\ ctr' = ctr
             /\ Return("error")
             /\ stream' = EndAt("name", d.res)
             /\ items' = items
        ELSE /\ ctr' = Inc(ctr, "readCalls")
             /\ items' = [items EXCEPT ![uw].metricNameBuf.data = d.data]
             /\ rpc' = "blockSize"
             /\ UNCHANGED <<ret, stream>>
    /\ UNCHANGED <<env, others, gomaxprocs, tr, uw, workCh, closed, wpc,
                   wuw, pool, stat>>

\* Lines 101-105: read the metric name.
ReadName ==
    /\ rpc = "name"
    /\ \E d \in PayloadOffers(items[uw].metricNameBuf.len,
                              NamePayloads(env.mode, items[uw].metricNameBuf.len)) :
        LET err == ReadFull(items[uw].metricNameBuf.len, d) IN
        IF err # "nil"
        THEN /\ ctr' = Inc(ctr, "readErrors")
             /\ Return("error")
             /\ stream' = EndAt("name", d.res)
             /\ items' = items
        ELSE /\ ctr' = Inc(ctr, "readCalls")
             /\ items' = [items EXCEPT ![uw].metricNameBuf.data = d.data]
             /\ rpc' = "blockSize"
             /\ UNCHANGED <<ret, stream>>
    /\ UNCHANGED <<env, others, gomaxprocs, tr, uw, workCh, closed, wpc,
                   wuw, pool, stat>>

\* Mutant of ReadBlockSize: the end of the stream is handled as at the
\* metric-name length (lines 87-90), as a clean end.
ReadBlockSizeEOFOk ==
    /\ rpc = "blockSize"
    /\ \E d \in Full(BlockSizeWords(env.mode, items[uw].metricNameBuf)) \cup Failures :
        LET err == ReadFull(SizeBufLen, d)
            bufSize == UnmarshalUint32(d.bytes)
        IN  IF err = "EOF"
            THEN /\ Return("nil")
                 /\ stream' = EndAt("blockSize", d.res)
                 /\ UNCHANGED <<ctr, items>>
            ELSE IF err # "nil"
            THEN /\ ctr' = Inc(ctr, "readErrors")
                 /\ Return("error")
                 /\ stream' = EndAt("blockSize", d.res)
                 /\ items' = items
            ELSE IF TooBig(bufSize)
            THEN /\ ctr' = Inc(Inc(ctr, "readCalls"), "parseErrors")
                 /\ Return("error")
                 /\ stream' = EndTooBig("blockSize", d.bytes)
                 /\ items' = items
            ELSE /\ ctr' = Inc(ctr, "readCalls")
                 /\ items' = [items EXCEPT ![uw].blockBuf = Resize(@, bufSize)]
                 /\ rpc' = "block"
                 /\ stream' = [stream EXCEPT !.last = d.bytes]
                 /\ ret' = ret
    /\ UNCHANGED <<env, others, gomaxprocs, tr, uw, workCh, closed, wpc, wuw, pool,
                   stat>>

\* Lines 107-118: read the block length, check it, size the buffer.
ReadBlockSize ==
    /\ rpc = "blockSize"
    /\ \E d \in Full(BlockSizeWords(env.mode, items[uw].metricNameBuf)) \cup Failures :
        LET err == ReadFull(SizeBufLen, d)
            bufSize == UnmarshalUint32(d.bytes)
        IN  IF err # "nil"
            THEN /\ ctr' = Inc(ctr, "readErrors")
                 /\ Return("error")
                 /\ stream' = EndAt("blockSize", d.res)
                 /\ items' = items
            ELSE IF TooBig(bufSize)
            THEN /\ ctr' = Inc(Inc(ctr, "readCalls"), "parseErrors")
                 /\ Return("error")
                 /\ stream' = EndTooBig("blockSize", d.bytes)
                 /\ items' = items
            ELSE /\ ctr' = Inc(ctr, "readCalls")
                 /\ items' = [items EXCEPT ![uw].blockBuf = Resize(@, bufSize)]
                 /\ rpc' = "block"
                 /\ stream' = [stream EXCEPT !.last = d.bytes]
                 /\ ret' = ret
    /\ UNCHANGED <<env, others, gomaxprocs, tr, uw, workCh, closed, wpc, wuw, pool,
                   stat>>

\* History of one complete record: how often it was received from workCh,
\* failed to decode, was passed to the callback, was released to the pool,
\* and how many rows the Block passed to the callback held.
NoStat == [deq |-> 0, derr |-> 0, cb |-> 0, put |-> 0, rows |-> 0]

\* Whether the client sent a well-formed record: a marshaled metric name and
\* a marshaled block with nothing after it.
WellFormed(nameBuf, blockBuf) ==
    /\ nameBuf.data.kind = "name"
    /\ blockBuf.data.kind = "block"
    /\ blockBuf.data.tail = 0

\* Lines 119-124: read the block data; the record is complete.
ReadBlock ==
    /\ rpc = "block"
    /\ \E d \in PayloadOffers(items[uw].blockBuf.len,
                              BlockPayloads(env.mode, items[uw].blockBuf.len,
                                            items[uw].metricNameBuf)) :
        LET err == ReadFull(items[uw].blockBuf.len, d)
            buf == [items[uw].blockBuf EXCEPT !.data = d.data]
        IN  IF err # "nil"
            THEN /\ ctr' = Inc(ctr, "readErrors")
                 /\ Return("error")
                 /\ stream' = EndAt("block", d.res)
                 /\ UNCHANGED <<items, stat>>
            ELSE /\ ctr' = Inc(Inc(ctr, "readCalls"), "blocksRead")
                 /\ items' = [items EXCEPT ![uw].blockBuf = buf,
                                           ![uw].rec = Len(stream.recs) + 1]
                 /\ stream' = [stream EXCEPT !.recs =
                        Append(@, [ok |-> WellFormed(items[uw].metricNameBuf, buf)])]
                 /\ stat' = Append(stat, NoStat)
                 /\ rpc' = "send"
                 /\ ret' = ret
    /\ UNCHANGED <<env, others, gomaxprocs, tr, uw, workCh, closed, wpc,
                   wuw, pool>>

\* Line 51: cap(workCh)
Cap == QueueFactor * gomaxprocs

\* Mutant of Send: an unbounded queue; the send never blocks.
SendUnbounded ==
    /\ rpc = "send"
    /\ workCh' = Append(workCh, uw)
    /\ uw' = 0
    /\ rpc' = "get"
    /\ UNCHANGED <<env, others, gomaxprocs, ret, tr, closed, wpc, wuw,
                   items, pool, ctr, stream, stat>>

\* Mutant of Send: getUnmarshalWork hoisted out of the loop; the reader
\* goes on to fill the item it has just sent.
SendAndKeep ==
    /\ rpc = "send"
    /\ Len(workCh) < Cap
    /\ workCh' = Append(workCh, uw)
    /\ uw' = uw
    /\ rpc' = "nameSize"
    /\ UNCHANGED <<env, others, gomaxprocs, ret, tr, closed, wpc, wuw,
                   items, pool, ctr, stream, stat>>

\* Lines 126-127: workCh <- uw blocks while the channel is full.
Send ==
    /\ rpc = "send"
    /\ Len(workCh) < Cap
    /\ workCh' = Append(workCh, uw)
    /\ uw' = 0
    /\ rpc' = "get"
    /\ UNCHANGED <<env, others, gomaxprocs, ret, tr, closed, wpc, wuw,
                   items, pool, ctr, stream, stat>>

\* Mutant of CloseWorkCh: the deferred function waits without closing.
CloseWorkChForgotten ==
    /\ rpc = "close"
    /\ closed' = closed
    /\ rpc' = "wait"
    /\ UNCHANGED <<env, others, gomaxprocs, ret, tr, uw, workCh, wpc, wuw,
                   items, pool, ctr, stream, stat>>

\* Line 54, deferred: close(workCh)
CloseWorkCh ==
    /\ rpc = "close"
    /\ closed' = TRUE
    /\ rpc' = "wait"
    /\ UNCHANGED <<env, others, gomaxprocs, ret, tr, uw, workCh, wpc, wuw,
                   items, pool, ctr, stream, stat>>

\* Mutant of WaitWorkers: the deferred function closes the channel and
\* does not wait for the workers.
WaitWorkersNoWait ==
    /\ rpc = "wait"
    /\ rpc' = "returned"
    /\ uw' = 0
    /\ UNCHANGED <<env, others, gomaxprocs, ret, tr, workCh, closed, wpc,
                   wuw, items, pool, ctr, stream, stat>>

\* Line 55, deferred: wg.Wait(), then ParseStream returns and its locals
\* are gone.
WaitWorkers ==
    /\ rpc = "wait"
    /\ \A w \in Workers : wpc[w] = "exited"
    /\ rpc' = "returned"
    /\ uw' = 0
    /\ UNCHANGED <<env, others, gomaxprocs, ret, tr, workCh, closed, wpc,
                   wuw, items, pool, ctr, stream, stat>>

(* ------------------------------ the workers ---------------------------- *)
\* Mutant of Range: the channel hands out its newest item first.
RangeNewestFirst(w) ==
    /\ wpc[w] = "range"
    /\ \/ /\ workCh # <<>>
          /\ wuw' = [wuw EXCEPT ![w] = workCh[Len(workCh)]]
          /\ workCh' = SubSeq(workCh, 1, Len(workCh) - 1)
          /\ wpc' = [wpc EXCEPT ![w] = "unmarshal"]
          /\ stat' = [stat EXCEPT ![items[workCh[Len(workCh)]].rec].deq = @ + 1]
       \/ /\ workCh = <<>>
          /\ closed
          /\ wpc' = [wpc EXCEPT ![w] = "exited"]
          /\ UNCHANGED <<wuw, workCh, stat>>
    /\ UNCHANGED <<env, others, gomaxprocs, rpc, ret, tr, uw, closed,
                   items, pool, ctr, stream>>

\* Mutant of Range: a worker leaves its loop as soon as the channel is
\* closed, whatever the channel still holds.
RangeExitOnClose(w) ==
    /\ wpc[w] = "range"
    /\ \/ /\ workCh # <<>>
          /\ ~closed
          /\ wuw' = [wuw EXCEPT ![w] = Head(workCh)]
          /\ workCh' = Tail(workCh)
          /\ wpc' = [wpc EXCEPT ![w] = "unmarshal"]
          /\ stat' = [stat EXCEPT ![items[Head(workCh)].rec].deq = @ + 1]
       \/ /\ closed
          /\ wpc' = [wpc EXCEPT ![w] = "exited"]
          /\ UNCHANGED <<wuw, workCh, stat>>
    /\ UNCHANGED <<env, others, gomaxprocs, rpc, ret, tr, uw, closed,
                   items, pool, ctr, stream>>

\* Line 62: for uw := range workCh -- receive the oldest item, or leave the
\* loop (and run wg.Done, line 60) when the channel is closed and empty.
Range(w) ==
    /\ wpc[w] = "range"
    /\ \/ /\ workCh # <<>>
          /\ wuw' = [wuw EXCEPT ![w] = Head(workCh)]
          /\ workCh' = Tail(workCh)
          /\ wpc' = [wpc EXCEPT ![w] = "unmarshal"]
          /\ stat' = [stat EXCEPT ![items[Head(workCh)].rec].deq = @ + 1]
       \/ /\ workCh = <<>>
          /\ closed
          /\ wpc' = [wpc EXCEPT ![w] = "exited"]
          /\ UNCHANGED <<wuw, workCh, stat>>
    /\ UNCHANGED <<env, others, gomaxprocs, rpc, ret, tr, uw, closed,
                   items, pool, ctr, stream>>

\* Mutant of Unmarshal: line 67's continue is missing (with line 66's
\* release), so a record that failed to decode goes on to the callback.
UnmarshalNoContinue(w) ==
    /\ wpc[w] = "unmarshal"
    /\ LET id == wuw[w]
           r == unmarshal(items[id], tr)
       IN  /\ items' = [items EXCEPT ![id] = r.uw]
           /\ wpc' = [wpc EXCEPT ![w] = "callback"]
           /\ IF r.err
              THEN /\ ctr' = Inc(ctr, "parseErrors")
                   /\ stat' = [stat EXCEPT ![items[id].rec].derr = @ + 1,
                                           ![items[id].rec].cb = @ + 1]
              ELSE /\ ctr' = [ctr EXCEPT !.rowsRead = @ + r.rows]
                   /\ stat' = [stat EXCEPT ![items[id].rec].cb = @ + 1,
                                           ![items[id].rec].rows =
                                               Len(r.uw.block.Timestamps)]
    /\ UNCHANGED <<env, others, gomaxprocs, rpc, ret, tr, uw, workCh,
                   closed, wuw, pool, stream>>

\* Mutant of Unmarshal: a decode failure ends the worker (return in place
\* of lines 66-67).
UnmarshalReturnOnError(w) ==
    /\ wpc[w] = "unmarshal"
    /\ LET id == wuw[w]
           r == unmarshal(items[id], tr)
       IN  /\ items' = [items EXCEPT ![id] = r.uw]
           /\ IF r.err
              THEN /\ ctr' = Inc(ctr, "parseErrors")
                   /\ wpc' = [wpc EXCEPT ![w] = "exited"]
                   /\ stat' = [stat EXCEPT ![items[id].rec].derr = @ + 1]
              ELSE /\ ctr' = [ctr EXCEPT !.rowsRead = @ + r.rows]
                   /\ wpc' = [wpc EXCEPT ![w] = "callback"]
                   /\ stat' = [stat EXCEPT ![items[id].rec].cb = @ + 1,
                                           ![items[id].rec].rows =
                                               Len(r.uw.block.Timestamps)]
    /\ UNCHANGED <<env, others, gomaxprocs, rpc, ret, tr, uw, workCh,
                   closed, wuw, pool, stream>>

\* Mutant of Unmarshal: a Block left without rows by the filter is not
\* passed to the callback; its item is released at once.
UnmarshalSkipEmpty(w) ==
    /\ wpc[w] = "unmarshal"
    /\ LET id == wuw[w]
           r == unmarshal(items[id], tr)
       IN  /\ items' = [items EXCEPT ![id] = r.uw]
           /\ IF r.err
              THEN /\ ctr' = Inc(ctr, "parseErrors")
                   /\ wpc' = [wpc EXCEPT ![w] = "put66"]
                   /\ stat' = [stat EXCEPT ![items[id].rec].derr = @ + 1]
              ELSE IF r.rows = 0
              THEN /\ ctr' = ctr
                   /\ wpc' = [wpc EXCEPT ![w] = "put75"]
                   /\ stat' = stat
              ELSE /\ ctr' = [ctr EXCEPT !.rowsRead = @ + r.rows]
                   /\ wpc' = [wpc EXCEPT ![w] = "callback"]
                   /\ stat' = [stat EXCEPT ![items[id].rec].cb = @ + 1,
                                           ![items[id].rec].rows =
                                               Len(r.uw.block.Timestamps)]
    /\ UNCHANGED <<env, others, gomaxprocs, rpc, ret, tr, uw, workCh,
                   closed, wuw, pool, stream>>

\* Lines 63-69: decode; on failure count it (and go on to line 66), on
\* success call the callback.
Unmarshal(w) ==
    /\ wpc[w] = "unmarshal"
    /\ LET id == wuw[w]
           r == unmarshal(items[id], tr)
       IN  /\ items' = [items EXCEPT ![id] = r.uw]
           /\ IF r.err
              THEN /\ ctr' = Inc(ctr, "parseErrors")
                   /\ wpc' = [wpc EXCEPT ![w] = "put66"]
                   /\ stat' = [stat EXCEPT ![items[id].rec].derr = @ + 1]
              ELSE /\ ctr' = [ctr EXCEPT !.rowsRead = @ + r.rows]
                   /\ wpc' = [wpc EXCEPT ![w] = "callback"]
                   /\ stat' = [stat EXCEPT ![items[id].rec].cb = @ + 1,
                                           ![items[id].rec].rows =
                                               Len(r.uw.block.Timestamps)]
    /\ UNCHANGED <<env, others, gomaxprocs, rpc, ret, tr, uw, workCh,
                   closed, wuw, pool, stream>>

\* Mutant of CallbackReturn: the callback is started with a go statement;
\* the worker goes on to its next receive while the callback runs.
CallbackReturnDetached(w) ==
    /\ wpc[w] = "callback"
    /\ ctr' = ctr
    /\ wpc' = [wpc EXCEPT ![w] = "range"]
    /\ wuw' = [wuw EXCEPT ![w] = 0]
    /\ UNCHANGED <<env, others, gomaxprocs, rpc, ret, tr, uw, workCh,
                   closed, items, pool, stream, stat>>

\* Lines 69-75: the callback returns, with an error or without.
CallbackReturn(w) ==
    /\ wpc[w] = "callback"
    /\ \E failed \in (IF env.sinkFails THEN BOOLEAN ELSE {FALSE}) :
          IF failed
          THEN /\ ctr' = Inc(ctr, "processErrors")
               /\ wpc' = [wpc EXCEPT ![w] = "put72"]
          ELSE /\ ctr' = ctr
               /\ wpc' = [wpc EXCEPT ![w] = "put75"]
    /\ UNCHANGED <<env, others, gomaxprocs, rpc, ret, tr, uw, workCh,
                   closed, wuw, items, pool, stream, stat>>

\* Line 66, 72 or 75: putUnmarshalWork(uw), and on to the next item.
Put(w) ==
    /\ wpc[w] \in {"put66", "put72", "put75"}
    /\ stat' = [stat EXCEPT ![items[wuw[w]].rec].put = @ + 1]
    /\ putUnmarshalWork(wuw[w])
    /\ wuw' = [wuw EXCEPT ![w] = 0]
    /\ wpc' = [wpc EXCEPT ![w] = "range"]
    /\ UNCHANGED <<env, others, gomaxprocs, rpc, ret, tr, uw, workCh,
                   closed, ctr, stream>>

(* ----------------------------------------------------------------------- *)
Next ==
    \/ ReadTimeRange
    \/ StartWorkers
    \/ GetWork
    \/ ReadNameSize
    \/ ReadName
    \/ ReadBlockSize
    \/ ReadBlock
    \/ Send
    \/ CloseWorkCh
    \/ WaitWorkers
    \/ \E w \in DOMAIN wpc : Range(w)
    \/ \E w \in DOMAIN wpc : Unmarshal(w)
    \/ \E w \in DOMAIN wpc : CallbackReturn(w)
    \/ \E w \in DOMAIN wpc : Put(w)

Spec == Init /\ [][Next]_vars

\* The reads return (the stream is finite: it delivers, ends or fails),
\* every callback returns, and the Go scheduler runs what can run: as long
\* as some step of the call is possible, a step is taken.
LiveSpec == Init /\ [][Next]_vars /\ WF_vars(Next)

(* ------------------- other calls sharing the pool ---------------------- *)
\* unmarshalWorkPool (line 197) is a package variable: every ParseStream
\* call of the process gets from it and puts to it.  The other calls are
\* kept as what they do to WorkItems: their readers take an item (line 83)
\* and fill it, their workers decode it (line 63) and release it (lines
\* 66, 72, 75), and a reader that returns drops the item it holds.

\* Most WorkItems the other calls hold at one time.
MaxOthers == 2
\* Most WorkItems allocated while other calls run.
MaxItems == 3
\* Most complete records the client of this call sends while other calls run.
PoolRecs == 1

\* Line 83 in another call.
OtherGet ==
    /\ Cardinality(others) < MaxOthers
    /\ \E id \in pool \cup (IF Len(items) < MaxItems THEN {Len(items) + 1} ELSE {}) :
          /\ getUnmarshalWork(id)
          /\ others' = others \cup {id}
    /\ UNCHANGED <<env, gomaxprocs, rpc, ret, tr, uw, workCh, closed,
                   wpc, wuw, ctr, stream, stat>>

\* Lines 100-119 and 63 in another call: the item is filled with a record
\* and decoded, with success or without.
OtherUse ==
    /\ \E id \in others :
       \E b \in {BlockPayload(RowsB, 0), Garbage} :
          /\ items[id].metricNameBuf.len = 0
          /\ LET filled == [items[id] EXCEPT
                     !.metricNameBuf = [len |-> NameLen, data |-> NamePayload("mem")],
                     !.blockBuf = [len |-> BlockLen, data |-> b]]
             IN  items' = [items EXCEPT ![id] =
                     unmarshal(filled, [MinTimestamp |-> 1000, MaxTimestamp |-> 2000]).uw]
    /\ UNCHANGED <<env, others, gomaxprocs, rpc, ret, tr, uw, workCh, closed,
                   wpc, wuw, pool, ctr, stream, stat>>

\* Line 66, 72 or 75 in another call.
OtherPut ==
    /\ \E id \in others :
          /\ items[id].metricNameBuf.len > 0
          /\ putUnmarshalWork(id)
          /\ others' = others \ {id}
    /\ UNCHANGED <<env, gomaxprocs, rpc, ret, tr, uw, workCh, closed,
                   wpc, wuw, ctr, stream, stat>>

\* Lines 89-121 in another call: its reader returns with the item it took
\* at line 83, unused.
OtherReturn ==
    /\ \E id \in others :
          /\ items[id].metricNameBuf.len = 0
          /\ others' = others \ {id}
    /\ UNCHANGED <<env, gomaxprocs, rpc, ret, tr, uw, workCh, closed,
                   wpc, wuw, items, pool, ctr, stream, stat>>

InitPool ==
    InitWith([mode |-> "mixed", recs |-> PoolRecs, sinkFails |-> FALSE], {MaxProcs})

NextPool ==
    \/ Next
    \/ OtherGet
    \/ OtherUse
    \/ OtherPut
    \/ OtherReturn

SpecPool == InitPool /\ [][NextPool]_vars

(* ======================================================================= *)
(*                               The claims                                *)
(* ======================================================================= *)
Started == DOMAIN wpc # {}
Returned == rpc = "returned"
Recs == 1..Len(stat)

\* The sum over the complete records of one history count.
Total(f) ==
    LET F[i \in 0..Len(stat)] == IF i = 0 THEN 0 ELSE F[i - 1] + stat[i][f]
    IN  F[Len(stat)]

\* The number of callback invocations so far.
Callbacks == Total("cb")
\* The complete records the client sent malformed.
BadRecs == {i \in 1..Len(stream.recs) : ~stream.recs[i].ok}
\* The stream ended with no byte at the first length read of a record.
CleanEnd == stream.end = [at |-> "nameSize", how |-> "eof"]
Ended == stream.end.how # "open"
\* The ids in the channel.
Queued == {workCh[i] : i \in 1..Len(workCh)}

\* C1: once the workers are started, ParseStream has returned only with
\* workCh closed and every one of the gomaxprocs workers out of its loop:
\* no worker is decoding, in the callback or releasing an item.
C1_ReturnsAfterWorkersExit ==
    (Returned /\ stream.hdr # <<>>) =>
        /\ closed
        /\ DOMAIN wpc = 1..gomaxprocs
        /\ \A w \in DOMAIN wpc : wpc[w] = "exited" /\ wuw[w] = 0

\* A fatal error was returned after a record went through the callback.
C1_Witness ==
    /\ Returned
    /\ ret = "error"
    /\ Len(stat) >= 1
    /\ stat[1].cb = 1
    /\ \A w \in DOMAIN wpc : wpc[w] = "exited"

\* C2: no record is ever received twice or given two outcomes, and when
\* ParseStream has returned from a stream that ended on a record boundary,
\* every record was received once and got one outcome (decode error or
\* callback), the callbacks numbering the records less the malformed ones.
C2_OneOutcomePerRecord ==
    /\ Len(stat) = Len(stream.recs)
    /\ \A i \in Recs : stat[i].deq <= 1 /\ stat[i].derr + stat[i].cb <= 1
    /\ (Returned /\ CleanEnd) =>
          /\ \A i \in Recs : stat[i].deq = 1 /\ stat[i].derr + stat[i].cb = 1
          /\ Callbacks = Len(stream.recs) - Cardinality(BadRecs)

\* Two well-formed records, a clean end: two callbacks and no error.
C2_Witness ==
    /\ Returned
    /\ CleanEnd
    /\ ret = "nil"
    /\ Len(stream.recs) = 2
    /\ BadRecs = {}
    /\ Callbacks = 2

\* The time range the header bytes stand for, read off the bytes.
HeaderRange ==
    IF stream.hdr = <<0, 0, 0, 0, 0, 0, 3, 232, 0, 0, 0, 0, 0, 0, 7, 208>>
    THEN [MinTimestamp |-> 1000, MaxTimestamp |-> 2000]
    ELSE [MinTimestamp |-> -1, MaxTimestamp |-> -1001]

RowsOf(b) == [i \in 1..Len(b.Timestamps) |-> <<b.Timestamps[i], b.Values[i]>>]
InHeaderRange(row) ==
    HeaderRange.MinTimestamp <= row[1] /\ row[1] <= HeaderRange.MaxTimestamp

\* C3: during a callback the Block holds exactly the rows of the decoded
\* block that lie in the header's range, both ends included, in decoded
\* order; for [1000, 2000] and rows (900,1) (1500,2) (2500,3) that is (1500,2).
C3_RowsInRange ==
    \A w \in DOMAIN wpc : wpc[w] = "callback" =>
        LET it == items[wuw[w]] IN
        /\ stream.hdr \in {<<0, 0, 0, 0, 0, 0, 3, 232, 0, 0, 0, 0, 0, 0, 7, 208>>,
                           <<255, 255, 255, 255, 255, 255, 255, 255,
                             255, 255, 255, 255, 255, 255, 252, 23>>}
        /\ Len(it.block.Timestamps) = Len(it.block.Values)
        /\ \A i \in 1..Len(it.block.Timestamps) :
              /\ HeaderRange.MinTimestamp <= it.block.Timestamps[i]
              /\ it.block.Timestamps[i] <= HeaderRange.MaxTimestamp
        /\ RowsOf(it.block) = SelectSeq(it.blockBuf.data.rows, InHeaderRange)
        /\ (HeaderRange.MinTimestamp = 1000 /\ it.blockBuf.data.rows = RowsA) =>
              /\ it.block.Timestamps = <<1500>>
              /\ it.block.Values = <<2>>
              /\ it.block.MetricName = "cpu"

\* The example of the claim, and the inclusive ends, in a callback.
C3_Witness ==
    \E w \in DOMAIN wpc :
        /\ wpc[w] = "callback"
        /\ tr = [MinTimestamp |-> 1000, MaxTimestamp |-> 2000]
        /\ items[wuw[w]].blockBuf.data.rows = RowsA
        /\ items[wuw[w]].block.Timestamps = <<1500>>
        /\ \E v \in DOMAIN wpc :
              /\ wpc[v] = "callback"
              /\ items[wuw[v]].block.Timestamps = <<1000, 2000>>

\* C4: decode and callback failures are not fatal.  A record that failed to
\* decode failed once, is malformed and never reached the callback; the
\* decode-error counter counts such records (and one oversized length, if
\* the call ended on it); every record is received and released once by
\* the time of return whatever happened to the others; the return value is
\* decided by how the stream ended alone; and a callback's failure adds
\* exactly one to the callback-error counter, which nothing else changes.
C4_State ==
    /\ \A i \in Recs :
          /\ stat[i].derr <= 1
          /\ stat[i].derr = 1 => (stat[i].cb = 0 /\ i \in BadRecs)
          /\ stat[i].cb = 1 => i \notin BadRecs
    /\ ctr.parseErrors =
          Total("derr") + (IF stream.end.how = "toobig" THEN 1 ELSE 0)
    /\ (Returned /\ Started) =>
          \A i \in Recs : stat[i].deq = 1 /\ stat[i].put = 1
    /\ (CleanEnd /\ rpc \in {"close", "wait", "returned"}) => ret = "nil"
    /\ ret = "error" => (Ended /\ ~CleanEnd)

C4_Step ==
    /\ \A w \in DOMAIN wpc :
          /\ (wpc[w] = "callback" /\ wpc'[w] = "put72") =>
                ctr'.processErrors = ctr.processErrors + 1
          /\ (wpc[w] = "callback" /\ wpc'[w] = "put75") =>
                ctr'.processErrors = ctr.processErrors
          /\ (wpc[w] = "callback" /\ wpc'[w] # "callback") =>
                (ret' = ret /\ rpc' = rpc /\ closed' = closed)
          /\ (wpc[w] = "unmarshal" /\ wpc'[w] # "unmarshal") =>
                (ret' = ret /\ rpc' = rpc /\ closed' = closed)
    /\ ctr'.processErrors # ctr.processErrors =>
          \E w \in DOMAIN wpc : wpc[w] = "callback" /\ wpc'[w] = "put72"

C5_State ==
    /\ stream.last \in {<<0, 16, 0, 1>>, <<127, 255, 255, 255>>} =>
          /\ stream.end.how = "toobig"
          /\ stream.end.at \in {"nameSize", "blockSize"}
          /\ ret = "error"
          /\ rpc \in {"close", "wait", "returned"}
    /\ stream.end.how = "toobig" =>
          stream.last \in {<<0, 16, 0, 1>>, <<127, 255, 255, 255>>}
    /\ (stream.last = <<0, 16, 0, 0>> /\ rpc = "name") =>
          (~Ended /\ items[uw].metricNameBuf.len = 1048576)
    /\ (stream.last = <<0, 16, 0, 0>> /\ rpc = "block") =>
          (~Ended /\ items[uw].blockBuf.len = 1048576)
    /\ uw # 0 => uw \notin Queued
    /\ \A id \in Queued : items[id].rec \in 1..Len(stream.recs)

C5_Step ==
    Ended =>
        /\ stream' = stream
        /\ Len(stat') = Len(stat)
        /\ ctr'.readCalls = ctr.readCalls
        /\ ctr'.blocksRead = ctr.blocksRead
        /\ workCh' \in {workCh} \cup (IF workCh = <<>> THEN {} ELSE {Tail(workCh)})
        /\ rpc' \in {"close", "wait", "returned"}

C5_OversizedFrameIsFatal == [](C5_State) /\ [][C5_Step]_vars

\* An oversized block length after one complete record, the call returned.
C5_Witness ==
    /\ Returned
    /\ stream.end = [at |-> "blockSize", how |-> "toobig"]
    /\ stream.last = <<0, 16, 0, 1>>
    /\ ret = "error"
    /\ Len(stream.recs) = 1
    /\ stat[1].deq = 1

\* C6: ParseStream's result is nil exactly when the stream ended with no
\* byte at the first length read of a record; any other end (in the header,
\* inside that length, at or inside the name, at or inside the block length,
\* at or inside the block) gives an error; and what was sent to the channel
\* is complete records only, the partial record never.
C6_EndOfStreamAsymmetry ==
    /\ (ret = "nil") <=> CleanEnd
    /\ (ret = "error") <=> (Ended /\ ~CleanEnd)
    /\ (ret = "none") <=> ~Ended
    /\ Len(workCh) + Total("deq") <= Len(stream.recs)
    /\ Ended => Len(workCh) + Total("deq") = Len(stream.recs)
    /\ \A id \in Queued : items[id].rec \in 1..Len(stream.recs)
    /\ (Ended /\ uw # 0) => (uw \notin Queued /\ items[uw].rec = 0)

\* The stream ended with no byte at the block length, after one complete
\* record: an error, the one record handled, the partial one dropped.
C6_Witness ==
    /\ Returned
    /\ stream.end = [at |-> "blockSize", how |-> "eof"]
    /\ ret = "error"
    /\ Len(stream.recs) = 1
    /\ Total("deq") = 1

\* C7: with fewer than 16 bytes for the header (none included) ParseStream
\* returns an error at once: no worker, no WorkItem, no callback.
C7_ShortHeader ==
    /\ stream.end.at = "header" =>
          /\ ret = "error"
          /\ Returned
          /\ stream.hdr = <<>>
    /\ stream.hdr = <<>> =>
          /\ ~Started
          /\ items = <<>>
          /\ pool = {}
          /\ uw = 0
          /\ workCh = <<>>
          /\ stat = <<>>
          /\ ret # "nil"
    /\ stream.hdr # <<>> => Len(stream.hdr) = 16

\* An empty body.
C7_Witness ==
    /\ Returned
    /\ stream.end = [at |-> "header", how |-> "eof"]
    /\ ret = "error"

\* C8: the channel never holds more than 8 * gomaxprocs items; while it
\* holds that many nothing is added, and a reader at its send stays there,
\* reading nothing; a worker at its receive stays there while the channel
\* is empty and open.
C8_State == Len(workCh) <= 8 * gomaxprocs

C8_Step ==
    /\ Len(workCh) = 8 * gomaxprocs =>
          /\ Len(workCh') <= Len(workCh)
          /\ rpc = "send" =>
                /\ rpc' = "send"
                /\ uw' = uw
                /\ stream' = stream
                /\ ctr'.readCalls = ctr.readCalls
    /\ \A w \in DOMAIN wpc :
          (wpc[w] = "range" /\ workCh = <<>> /\ ~closed) => wpc'[w] = "range"

C8_Backpressure == [](C8_State) /\ [][C8_Step]_vars

\* The channel is full and the reader is at its send with a further record.
C8_Witness ==
    /\ Len(workCh) = 8 * gomaxprocs
    /\ rpc = "send"
    /\ uw # 0
    /\ Len(stream.recs) = 8 * gomaxprocs + 1

\* The number of places that hold WorkItem id.
Places(id) ==
    (IF id \in pool THEN 1 ELSE 0)
    + (IF uw = id THEN 1 ELSE 0)
    + Cardinality({i \in 1..Len(workCh) : workCh[i] = id})
    + Cardinality({w \in DOMAIN wpc : wuw[w] = id})

\* C9: every WorkItem is in at most one of the pool, the reader's hands,
\* the channel, one worker's hands; the item a worker is decoding or has
\* passed to the callback is in that worker's hands only.
C9_ExclusiveOwnership ==
    /\ \A id \in 1..Len(items) : Places(id) <= 1
    /\ \A w \in DOMAIN wpc :
          wpc[w] \in {"unmarshal", "callback", "put66", "put72", "put75"} =>
              /\ wuw[w] \in 1..Len(items)
              /\ Places(wuw[w]) = 1
              /\ wuw[w] \notin pool
              /\ wuw[w] \notin Queued
              /\ wuw[w] # uw
    /\ \A id \in ((pool \cup Queued) \cup {uw}) \ {0} : id \in 1..Len(items)

\* Items in all four places at once, one of them in a callback.
C9_Witness ==
    /\ uw # 0
    /\ pool # {}
    /\ workCh # <<>>
    /\ \E w \in DOMAIN wpc : wpc[w] = "callback" /\ wuw[w] # 0

\* C10: when ParseStream has returned after starting the workers, every
\* WorkItem it obtained from getUnmarshalWork is back in the pool.
C10_NoLeak ==
    (Returned /\ Started) => \A id \in 1..Len(items) : id \in pool

\* The number of places that hold WorkItem id, other calls included.
PoolPlaces(id) == Places(id) + (IF id \in others THEN 1 ELSE 0)

\* An item as reset leaves it: no buffered bytes, no metric identity, no rows.
IsReset(it) ==
    /\ it.metricNameBuf.len = 0
    /\ it.metricNameBuf.data = NoData
    /\ it.blockBuf.len = 0
    /\ it.blockBuf.data = NoData
    /\ it.block.MetricName = ""
    /\ it.block.Values = <<>>
    /\ it.block.Timestamps = <<>>

\* C11: every WorkItem in the pool is empty (no name bytes, no block bytes,
\* no metric identity, no rows), and so is the item the reader has just
\* got from getUnmarshalWork; an item in the pool is held by nobody; an
\* item enters the pool only from the one holder it had, who then holds it
\* no more, so no item is released twice for one acquire, and no record's
\* item is released more than once; with other calls using the pool too.
C11_State ==
    /\ \A id \in pool : id \in 1..Len(items) /\ IsReset(items[id])
    /\ (rpc = "nameSize" /\ uw # 0) => IsReset(items[uw])
    /\ \A id \in 1..Len(items) : PoolPlaces(id) <= 1
    /\ \A i \in Recs : stat[i].put <= stat[i].deq /\ stat[i].put <= 1

C11_Step ==
    \A id \in 1..Len(items) :
        (id \in pool' /\ id \notin pool) =>
            /\ PoolPlaces(id) = 1
            /\ \/ id \in others
               \/ \E w \in DOMAIN wpc :
                     wuw[w] = id /\ wpc[w] \in {"put66", "put72", "put75"}
            /\ id \notin others'
            /\ uw' # id
            /\ \A w \in DOMAIN wpc : wuw'[w] # id
            /\ IsReset(items'[id])

C11_PoolHygiene == [](C11_State) /\ [][C11_Step]_vars

\* Two items exist, one carried this call's record and was released, and
\* both are in use again: one just acquired by the reader, empty, the other
\* filled by another call.
C11_Witness ==
    /\ Len(items) = 2
    /\ Len(stat) = 1
    /\ stat[1].put = 1
    /\ rpc = "nameSize"
    /\ uw # 0
    /\ IsReset(items[uw])
    /\ \E x \in others : x # uw /\ items[x].metricNameBuf.len > 0

\* The number of records received from the channel so far.
Dequeued == Total("deq")

\* C12: the channel holds, oldest first, the complete records not yet
\* received, in stream order: the records received so far are the first
\* Dequeued of the stream and the channel continues with the next ones; a
\* send appends the newest complete record, a receive takes the head, the
\* earliest record not yet received.
C12_State ==
    /\ \A i \in 1..Len(workCh) : items[workCh[i]].rec = Dequeued + i
    /\ \A i \in Recs : (stat[i].deq = 1) <=> (i <= Dequeued)
    /\ Dequeued + Len(workCh) =
          Len(stream.recs) - (IF rpc = "send" THEN 1 ELSE 0)

C12_Step ==
    /\ Len(workCh') > Len(workCh) =>
          /\ workCh' = Append(workCh, uw)
          /\ items[uw].rec = Len(stream.recs)
          /\ rpc = "send"
    /\ Len(workCh') < Len(workCh) =>
          /\ workCh' = Tail(workCh)
          /\ items[Head(workCh)].rec = Dequeued + 1
          /\ \E w \in DOMAIN wpc :
                wpc[w] = "range" /\ wuw'[w] = Head(workCh) /\ wuw[w] = 0

C12_EnqueueOrder == [](C12_State) /\ [][C12_Step]_vars

\* With two workers: the callback for record 2 has returned and its item
\* is released while the callback for record 1 is still running.
C12_Witness ==
    /\ gomaxprocs >= 2
    /\ Len(stat) = 2
    /\ stat[2].cb = 1
    /\ stat[2].put = 1
    /\ \E w \in DOMAIN wpc : wpc[w] = "callback" /\ items[wuw[w]].rec = 1

\* C13: ParseStream eventually returns; before it has, some step of the
\* reader or of a worker is always possible (no deadlock); and it has
\* returned only after the stream ended: nil at a clean end, an error at a
\* failed read or an oversized length.
C13_State ==
    /\ Returned \/ ENABLED Next
    /\ (rpc = "send" /\ Len(workCh) = Cap) =>
          \E w \in DOMAIN wpc : wpc[w] # "exited"
    /\ Returned =>
          /\ Ended
          /\ ret \in {"nil", "error"}
          /\ (ret = "nil") <=> CleanEnd
          /\ (ret = "error") =>
                \/ stream.end.how \in {"eof", "short", "err"}
                \/ stream.end.how = "toobig"

C13_Termination == [](C13_State) /\ <>Returned

\* The call has returned cleanly after the reader had been blocked on a
\* full channel: nine records through one worker.
C13_Witness ==
    /\ Returned
    /\ ret = "nil"
    /\ gomaxprocs = 1
    /\ Len(stream.recs) = 8 * gomaxprocs + 1
    /\ \A i \in Recs : stat[i].put = 1

\* The stream ended in a failed read or an oversized length.
FatalEnd == Ended /\ ~CleanEnd

\* C14: when ParseStream has returned an error after k complete records,
\* the channel is empty and each of the k records was received, decoded and
\* released once; the well-formed ones went to the callback, the malformed
\* ones were counted as decode errors.
C14_NoAbandonedTask ==
    (Returned /\ ret = "error" /\ Started) =>
        /\ FatalEnd
        /\ workCh = <<>>
        /\ Len(stat) = Len(stream.recs)
        /\ \A i \in Recs :
              /\ stat[i].deq = 1
              /\ stat[i].put = 1
              /\ i \in BadRecs => (stat[i].derr = 1 /\ stat[i].cb = 0)
              /\ i \notin BadRecs => (stat[i].cb = 1 /\ stat[i].derr = 0)
        /\ \A w \in DOMAIN wpc : wuw[w] = 0

\* An oversized name length after two complete records, one well-formed
\* and one malformed: the error is returned with both records handled.
C14_Witness ==
    /\ Returned
    /\ ret = "error"
    /\ stream.end = [at |-> "nameSize", how |-> "toobig"]
    /\ Len(stream.recs) = 2
    /\ BadRecs = {2}
    /\ stat[1].cb = 1
    /\ stat[2].derr = 1
    /\ workCh = <<>>

\* C15: rowsRead is the sum, over the records passed to the callback, of
\* the rows of the Block passed; a record that failed to decode adds
\* nothing.  A successful decode adds the number of rows of the decoded
\* block that lie in the header's range, which is the length of the Block
\* the callback gets; a failed decode and the callback's return, with an
\* error or without, leave rowsRead as it is.
C15_State ==
    /\ ctr.rowsRead = Total("rows")
    /\ \A i \in Recs : stat[i].cb = 0 => stat[i].rows = 0
    /\ \A w \in DOMAIN wpc : wpc[w] = "callback" =>
          /\ stat[items[wuw[w]].rec].rows = Len(items[wuw[w]].block.Timestamps)
          /\ stat[items[wuw[w]].rec].rows =
                Len(SelectSeq(items[wuw[w]].blockBuf.data.rows, InHeaderRange))

C15_Step ==
    /\ \A w \in DOMAIN wpc :
          /\ (wpc[w] = "unmarshal" /\ wpc'[w] = "callback") =>
                ctr'.rowsRead = ctr.rowsRead + Len(items'[wuw[w]].block.Timestamps)
          /\ (wpc[w] = "unmarshal" /\ wpc'[w] = "put66") =>
                ctr'.rowsRead = ctr.rowsRead
          /\ (wpc[w] = "callback" /\ wpc'[w] # "callback") =>
                ctr'.rowsRead = ctr.rowsRead
    /\ ctr'.rowsRead # ctr.rowsRead =>
          \E w \in DOMAIN wpc : wpc[w] = "unmarshal" /\ wpc'[w] = "callback"

C15_RowsCounter == [](C15_State) /\ [][C15_Step]_vars

\* Header [1000, 2000]; the records ("cpu", RowsA), one of three rows in
\* range, and ("long", RowsB), both rows in range; the first callback
\* failed; a clean return with rowsRead = 3.
C15_Witness ==
    /\ Returned
    /\ ret = "nil"
    /\ Len(stat) = 2
    /\ stat[1].rows = 1
    /\ stat[2].rows = 2
    /\ ctr.processErrors = 1
    /\ ctr.rowsRead = 3

\* The header's range holds no timestamp: min > max.
EmptyRange == HeaderRange.MinTimestamp > HeaderRange.MaxTimestamp

\* C16: a well-formed record gets its one callback whatever the filter
\* leaves: when ParseStream has returned, every well-formed record was passed
\* to the callback exactly once, also with a header whose min exceeds its
\* max, where every Block passed has no rows; and a Block passed to the
\* callback with none of its decoded rows in range has the record's metric
\* identity and no timestamps and no values.
C16_FilterKeepsCallback ==
    /\ \A i \in Recs : stat[i].cb <= 1
    /\ (Returned /\ Started) =>
          \A i \in Recs : i \notin BadRecs => stat[i].cb = 1
    /\ (Started /\ EmptyRange) =>
          /\ ctr.rowsRead = 0
          /\ \A i \in Recs : stat[i].rows = 0
    /\ \A w \in DOMAIN wpc : wpc[w] = "callback" =>
          LET it == items[wuw[w]] IN
          /\ stat[it.rec].cb = 1
          /\ it.block.MetricName = it.metricNameBuf.data.mn
          /\ it.block.MetricName # ""
          /\ SelectSeq(it.blockBuf.data.rows, InHeaderRange) = <<>> =>
                (it.block.Timestamps = <<>> /\ it.block.Values = <<>>)
          /\ EmptyRange => it.block.Timestamps = <<>>

\* Header [-1, -1001]: the second of two well-formed records is in its
\* callback with the identity "cpu" and no rows, after the first had its
\* callback too.
C16_Witness ==
    /\ EmptyRange
    /\ Len(stat) = 2
    /\ BadRecs = {}
    /\ stat[1].cb = 1
    /\ stat[1].put = 1
    /\ \E w \in DOMAIN wpc :
          /\ wpc[w] = "callback"
          /\ items[wuw[w]].rec = 2
          /\ items[wuw[w]].blockBuf.data.rows = RowsA
          /\ items[wuw[w]].block = [MetricName |-> "cpu", Values |-> <<>>,
                                    Timestamps |-> <<>>]

\* The reader is in its record loop (lines 82-128).
InLoop == rpc \in {"get", "nameSize", "name", "blockSize", "block", "send"}

\* C17: workCh is closed by one step of the call, taken after the reader
\* has left its loop with the stream ended, and stays closed; nothing is
\* sent to the closed channel; a worker leaves its loop only from its
\* receive, with the channel closed and empty.
C17_State ==
    /\ closed <=> (Started /\ rpc \in {"wait", "returned"})
    /\ closed => (Ended /\ ~InLoop)
    /\ rpc = "close" => (~closed /\ Ended)
    /\ InLoop => (~closed /\ ~Ended)
    /\ \A w \in DOMAIN wpc : wpc[w] = "exited" => (closed /\ workCh = <<>>)

C17_Step ==
    /\ closed => closed'
    /\ (~closed /\ closed') => (rpc = "close" /\ rpc' = "wait" /\ workCh' = workCh)
    /\ closed => (workCh' = workCh \/ (workCh # <<>> /\ workCh' = Tail(workCh)))
    /\ \A w \in DOMAIN wpc :
          (wpc[w] # "exited" /\ wpc'[w] = "exited") =>
              (wpc[w] = "range" /\ closed /\ workCh = <<>>)

C17_ClosedOnce == [](C17_State) /\ [][C17_Step]_vars

\* The channel is closed with two records still in it, and both workers
\* are at their receive: they go on to receive, they do not leave.
C17_Witness ==
    /\ closed
    /\ rpc = "wait"
    /\ Len(workCh) = 2
    /\ gomaxprocs = 2
    /\ \A w \in DOMAIN wpc : wpc[w] = "range"

\* The stream ended in a failed read: truncated, or an I/O failure.
ReadFailure == stream.end.how \in {"eof", "short", "err"} /\ ~CleanEnd
\* The stream ended in a length word above the ceiling.
SizeError == stream.end.how = "toobig"
\* The records that failed to decode so far.
DecodeFailures == Total("derr")

\* C18: the read-error counter is 1 after a failed read (in the header or
\* in a record) and 0 otherwise; the parse-error counter exceeds the number
\* of decode-failed records by 1 after an oversized length and by 0
\* otherwise; so a fatal end adds one to exactly one of the two, a clean
\* end to neither, and an error is returned exactly with such an addition.
\* The step at which the stream ends makes the addition; later steps add
\* nothing to the read-error counter.
C18_State ==
    /\ ctr.readErrors = (IF ReadFailure THEN 1 ELSE 0)
    /\ ctr.parseErrors - DecodeFailures = (IF SizeError THEN 1 ELSE 0)
    /\ ctr.readErrors + (ctr.parseErrors - DecodeFailures) =
          (IF ret = "error" THEN 1 ELSE 0)
    /\ CleanEnd => (ctr.readErrors = 0 /\ ctr.parseErrors = DecodeFailures)
    /\ ret = "nil" => (ctr.readErrors = 0 /\ ctr.parseErrors = DecodeFailures)
    /\ (ctr.parseErrors = DecodeFailures) <=> ~SizeError

C18_Step ==
    /\ (~Ended /\ Ended') =>
          /\ stream'.end.how \in {"short", "err"} =>
                /\ ctr'.readErrors = ctr.readErrors + 1
                /\ ctr'.parseErrors = ctr.parseErrors
                /\ ret' = "error"
          /\ (stream'.end.how = "eof" /\ stream'.end.at # "nameSize") =>
                /\ ctr'.readErrors = ctr.readErrors + 1
                /\ ctr'.parseErrors = ctr.parseErrors
                /\ ret' = "error"
          /\ stream'.end.how = "toobig" =>
                /\ ctr'.parseErrors = ctr.parseErrors + 1
                /\ ctr'.readErrors = ctr.readErrors
                /\ ret' = "error"
          /\ (stream'.end.how = "eof" /\ stream'.end.at = "nameSize") =>
                /\ ctr'.parseErrors = ctr.parseErrors
                /\ ctr'.readErrors = ctr.readErrors
                /\ ret' = "nil"
    /\ Ended => ctr'.readErrors = ctr.readErrors
    /\ ctr'.readErrors # ctr.readErrors => (~Ended /\ Ended')

C18_FatalCounters == [](C18_State) /\ [][C18_Step]_vars

\* One malformed record, then an oversized block length: the parse-error
\* counter stands at 2 with one decode failure, the read-error counter at 0.
C18_Witness ==
    /\ Returned
    /\ ret = "error"
    /\ stream.end = [at |-> "blockSize", how |-> "toobig"]
    /\ Len(stat) = 1
    /\ DecodeFailures = 1
    /\ ctr.parseErrors = 2
    /\ ctr.readErrors = 0

\* The callbacks in progress, and the WorkItems in the call's hands: the
\* reader's, those in the channel, the workers'.
InCallback == {w \in DOMAIN wpc : wpc[w] = "callback"}
InFlight ==
    (IF uw # 0 THEN 1 ELSE 0)
    + Len(workCh)
    + Cardinality({w \in DOMAIN wpc : wuw[w] # 0})

Busy(w) == wpc[w] \in {"unmarshal", "callback", "put66", "put72", "put75"}
\* Record i is in the hands of a worker other than w.
HeldByOther(i, w) ==
    \E v \in DOMAIN wpc : v # w /\ wuw[v] # 0 /\ items[wuw[v]].rec = i

\* C20: a worker holds one record at a time and goes through decode,
\* callback and release with it before its next receive; the record it
\* receives is later in the stream than every record received before, and
\* all of those are released or in another worker's hands, so each worker
\* takes its records in stream order, one after the other.  With one
\* worker, a record is received, and so passed to the callback, only after
\* every earlier record got its outcome and was released.
C20_State ==
    /\ \A w \in DOMAIN wpc : Busy(w) <=> wuw[w] # 0
    /\ \A w \in DOMAIN wpc : Busy(w) => stat[items[wuw[w]].rec].put = 0
    /\ \A i \in Recs : stat[i].deq = 1 =>
          (stat[i].put = 1 \/ HeldByOther(i, 0))
    /\ gomaxprocs = 1 =>
          \A j \in Recs : stat[j].deq = 1 =>
              \A i \in 1..(j - 1) :
                  stat[i].put = 1 /\ stat[i].derr + stat[i].cb = 1

C20_Step ==
    \A w \in DOMAIN wpc :
        /\ (wpc[w] = "range" /\ wpc'[w] = "unmarshal") =>
              /\ wuw[w] = 0
              /\ items[wuw'[w]].rec = Dequeued + 1
              /\ \A i \in 1..Dequeued : stat[i].put = 1 \/ HeldByOther(i, w)
        /\ wpc'[w] # wpc[w] =>
              <<wpc[w], wpc'[w]>> \in
                  {<<"range", "unmarshal">>, <<"range", "exited">>,
                   <<"unmarshal", "callback">>, <<"unmarshal", "put66">>,
                   <<"callback", "put72">>, <<"callback", "put75">>,
                   <<"put66", "range">>, <<"put72", "range">>,
                   <<"put75", "range">>}
        /\ (Busy(w) /\ wpc'[w] # "range") => wuw'[w] = wuw[w]

C20_WorkerOrder == [](C20_State) /\ [][C20_Step]_vars

\* One worker: record 3 is in the callback, records 1 and 2 had theirs and
\* are released, the later records wait in the channel.
C20_Witness ==
    /\ gomaxprocs = 1
    /\ \E w \in DOMAIN wpc : wpc[w] = "callback" /\ items[wuw[w]].rec = 3
    /\ stat[1].cb = 1 /\ stat[1].put = 1
    /\ stat[2].cb = 1 /\ stat[2].put = 1
    /\ Len(workCh) >= 2
    /\ items[Head(workCh)].rec = 4

====
